---- MODULE Spec2Model ----
(***************************************************************************)
(* Waste-fee manager: the server handlers createUser, updateUser,         *)
(* createPayment, updatePayment, createDispute and resolveDispute acting  *)
(* on the three tables users, payments and disputes.                      *)
(*                                                                         *)
(* A table is a function from the serial id of a row to the row.  Each    *)
(* handler is one action, taking its input as a parameter; the variable   *)
(* last holds the call whose result is on its way back to the caller: the *)
(* handler, its input, "ok" or the message of the Error thrown, the id of *)
(* the row that was returned and, for an updating handler, the row it     *)
(* read before it wrote.  Return hands the result over; the caller then   *)
(* makes its next call.  No handler reads a timestamp, so the clock only  *)
(* decides the values of created_at and updated_at: Spec runs the         *)
(* handlers at one instant, SpecClock lets the clock advance between      *)
(* calls.                                                                 *)
(*                                                                         *)
(* The reading handlers loginUser, getUserPayments, getAllPayments,       *)
(* getUserDisputes and getAllDisputes change no table; their result is    *)
(* held by last as well.  SpecLedger records, corrects and reads back     *)
(* payments with every shape of input, SpecRegister does the same for the *)
(* records of users, SpecUsers registers users and logs them in, and      *)
(* SpecViews adds the views of disputes and payments to Spec.             *)
(*                                                                         *)
(* A handler awaits each of its statements, so two calls in flight run    *)
(* their statements in any order.  The variable calls holds one call of   *)
(* each of two callers, statement by statement, for resolveDispute and    *)
(* updatePayment; SpecRace interleaves them.  A single SQL statement is   *)
(* taken to act on its row atomically.                                    *)
(***************************************************************************)
EXTENDS Integers, Sequences, FiniteSets, TLC

VARIABLES usersTable, usersSeq, paymentsTable, paymentsSeq,
          disputesTable, disputesSeq, now, last, calls

vars == <<usersTable, usersSeq, paymentsTable, paymentsSeq,
          disputesTable, disputesSeq, now, last, calls>>

(* ---- bounds of the model ---- *)
MaxUsers == 2
MaxPayments == 1
MaxDisputes == 2
MaxTime == 1

(* ---- values ---- *)
\* SQL NULL in a text column, and the null of a nullable zod string.
Null == "null"
\* SQL NULL in the integer column resolved_by_admin_id (serial ids start at 1).
NullId == 0

userRoleEnum == {"warga", "admin_kelurahan"}
disputeStatusEnum == {"pending", "approved", "rejected"}

Usernames == {"alice", "budi"}
Passwords == {"secret1"}
FullNames == {"Ani"}
Niks == {"1111222233334444", "5555666677778888"}
NoKks == {"9999000011112222"}
Addresses == {"Jl. Merdeka 1"}
Rts == {"001"}

\* Amounts are counted in thousandths of a rupiah, so that an input with more
\* than two decimals exists; the numeric(12,2) column holds hundredths.
Amounts == {4, 25000}
Dates == {1}
Months == {6}
Years == {2024}
Urls == {Null}
Reasons == {"wrong amount"}
Responses == {Null, "checked"}

UserIds == 1..(MaxUsers + 1)
PaymentIds == 1..(MaxPayments + 1)
DisputeIds == 1..(MaxDisputes + 1)

\* Two callers whose calls overlap: the statements of their handlers run one
\* at a time in any order.  A call is at the statement pc, or done with the
\* message of the Error thrown or "ok"; existing is the row its SELECT read.
Callers == {"A", "B"}
Idle == [op |-> "none", input |-> Null, pc |-> "idle", result |-> "ok", existing |-> Null]

\* No call is under way.
NoCall == [op |-> "none", input |-> Null, result |-> "ok", id |-> NullId, existing |-> Null]

\* The handler threw Error(message): the caller gets the message and no row.
Thrown(op, input, message) ==
    [op |-> op, input |-> input, result |-> message, id |-> NullId, existing |-> Null]

\* The handler returned the row stored under id; existing is the row an
\* updating handler read before it wrote (Null for an inserting handler).
Returned(op, input, id, existing) ==
    [op |-> op, input |-> input, result |-> "ok", id |-> id, existing |-> existing]

EmptyTable == [i \in {} |-> i]

\* INSERT ... RETURNING: the table with one more row under a fresh serial id.
Insert(table, id, row) ==
    [i \in (DOMAIN table) \cup {id} |-> IF i = id THEN row ELSE table[i]]

\* UPDATE ... SET ... WHERE id = ...: the columns named in set are overwritten.
Update(table, id, set) ==
    [i \in DOMAIN table |->
        IF i = id
        THEN [c \in DOMAIN table[i] |-> IF c \in DOMAIN set THEN set[c] ELSE table[i][c]]
        ELSE table[i]]

\* Bun.password.hash / Bun.password.verify: the hash is not the plaintext and
\* verifies exactly the password it was made from.
PasswordHash(password) == <<"$argon2id$", password>>
PasswordVerify(password, hash) == hash = PasswordHash(password)

(* ======================= createUser ======================= *)

\* Every input the schema accepts, over the values above.
AllCreateUserInputs ==
    [username : Usernames, password : Passwords, role : userRoleEnum,
     full_name : FullNames, nik : Niks, no_kk : NoKks,
     home_address : Addresses, rt : Rts]

\* The people who register: alice and budi, each with a nik of their own and
\* in either role.  A second registration of the same person collides on
\* username and nik; updateUser can give one person the other's nik.
CreateUserInputs ==
    {u \in AllCreateUserInputs :
        \/ u.username = "alice" /\ u.nik = "1111222233334444"
        \/ u.username = "budi" /\ u.nik = "5555666677778888"}

\* As UsersUniqueViolated, had only username been declared unique.
UsersUniqueViolatedUsernameOnly(table, id, row) ==
    \E i \in DOMAIN table : i # id /\ table[i].username = row.username

\* The unique constraints of usersTable: username and nik.
UsersUniqueViolated(table, id, row) ==
    \E i \in DOMAIN table :
        i # id /\ (table[i].username = row.username \/ table[i].nik = row.nik)

\* As createUserValues, had the password been stored as it was sent.
createUserValuesPlain(input) ==
    [username |-> input.username,
     password_hash |-> input.password,
     role |-> input.role,
     full_name |-> input.full_name,
     nik |-> input.nik,
     no_kk |-> input.no_kk,
     home_address |-> input.home_address,
     rt |-> input.rt,
     created_at |-> now,
     updated_at |-> now]

createUserValues(input) ==
    [username |-> input.username,
     password_hash |-> PasswordHash(input.password),
     role |-> input.role,
     full_name |-> input.full_name,
     nik |-> input.nik,
     no_kk |-> input.no_kk,
     home_address |-> input.home_address,
     rt |-> input.rt,
     created_at |-> now,
     updated_at |-> now]

createUser(input) ==
    /\ last.op = "none"
    /\ usersSeq < MaxUsers
    /\ usersSeq' = usersSeq + 1
    /\ IF UsersUniqueViolated(usersTable, usersSeq + 1, createUserValues(input))
       THEN /\ usersTable' = usersTable
            /\ last' = Thrown("createUser", input, "duplicate key value violates unique constraint")
       ELSE /\ usersTable' = Insert(usersTable, usersSeq + 1, createUserValues(input))
            /\ last' = Returned("createUser", input, usersSeq + 1, Null)
    /\ UNCHANGED <<paymentsTable, paymentsSeq, disputesTable, disputesSeq, now, calls>>

(* ======================= updateUser ======================= *)

\* The optional keys of updateUserInputSchema; a key that is absent from the
\* input is undefined in the handler.
UpdateUserFields == {"full_name", "nik", "no_kk", "home_address", "rt"}

\* Inputs the schema accepts: an id, and the optional keys of one of keySets.
UpdateUserInputsOver(keySets) ==
    {[f \in {"id"} \cup S |-> v[f]] :
        v \in [id : UserIds, full_name : FullNames, nik : Niks, no_kk : NoKks,
               home_address : Addresses, rt : Rts],
        S \in keySets}

UpdateUserInputs == UpdateUserInputsOver({{}, {"nik"}, UpdateUserFields})

\* As updateUserData, had the test of input.rt been left out.
updateUserDataNoRt(input) ==
    [c \in {"updated_at"} \cup ((DOMAIN input) \cap (UpdateUserFields \ {"rt"})) |->
        IF c = "updated_at" THEN now ELSE input[c]]

\* As updateUserData, had updateData started with created_at as well.
updateUserDataTouchCreated(input) ==
    [c \in {"created_at", "updated_at"} \cup ((DOMAIN input) \cap UpdateUserFields) |->
        IF c \in {"created_at", "updated_at"} THEN now ELSE input[c]]

\* updateData: updated_at, and every profile field that is not undefined.
updateUserData(input) ==
    [c \in {"updated_at"} \cup ((DOMAIN input) \cap UpdateUserFields) |->
        IF c = "updated_at" THEN now ELSE input[c]]

\* As updateUser, had the UPDATE not been held to the unique constraints.
updateUserNoConstraint(input) ==
    /\ last.op = "none"
    /\ IF input.id \notin DOMAIN usersTable
       THEN /\ usersTable' = usersTable
            /\ last' = Thrown("updateUser", input, "User not found")
       ELSE /\ usersTable' = Update(usersTable, input.id, updateUserData(input))
            /\ last' = Returned("updateUser", input, input.id, usersTable[input.id])
    /\ UNCHANGED <<usersSeq, paymentsTable, paymentsSeq, disputesTable, disputesSeq, now, calls>>

updateUser(input) ==
    /\ last.op = "none"
    /\ IF input.id \notin DOMAIN usersTable
       THEN /\ usersTable' = usersTable
            /\ last' = Thrown("updateUser", input, "User not found")
       ELSE IF UsersUniqueViolated(usersTable, input.id,
                   Update(usersTable, input.id, updateUserData(input))[input.id])
       THEN /\ usersTable' = usersTable
            /\ last' = Thrown("updateUser", input, "duplicate key value violates unique constraint")
       ELSE /\ usersTable' = Update(usersTable, input.id, updateUserData(input))
            /\ last' = Returned("updateUser", input, input.id, usersTable[input.id])
    /\ UNCHANGED <<usersSeq, paymentsTable, paymentsSeq, disputesTable, disputesSeq, now, calls>>

(* ======================= loginUser ======================= *)

\* loginInputSchema takes any two strings: the names and passwords people
\* registered with, a name in another letter case, a name nobody has, a
\* password nobody has, and the empty string.
LoginUsernames == Usernames \cup {"Alice", "carol", ""}
LoginPasswords == {"secret1", "secret2", "wrongpassword", ""}
LoginInputs == [username : LoginUsernames, password : LoginPasswords]

\* The users the query WHERE username = input.username selects.
loginUserResult(input) ==
    {i \in DOMAIN usersTable : usersTable[i].username = input.username}

\* What loginUser returns: null (NullId: no row) when no user is selected,
\* else the first selected user if its hash verifies the password, else null.
loginUserReturn(input) ==
    IF loginUserResult(input) = {}
    THEN {NullId}
    ELSE {IF PasswordVerify(input.password, usersTable[i].password_hash)
          THEN i ELSE NullId : i \in loginUserResult(input)}

\* As loginUser, had the username been compared without regard to letter case.
loginUserIgnoreCase(input) ==
    /\ last.op = "none"
    /\ LET lower(s) == IF s = "Alice" THEN "alice" ELSE s
           result == {i \in DOMAIN usersTable :
                         lower(usersTable[i].username) = lower(input.username)}
       IN IF result = {}
          THEN last' = Returned("loginUser", input, NullId, Null)
          ELSE \E i \in result :
                  IF PasswordVerify(input.password, usersTable[i].password_hash)
                  THEN last' = Returned("loginUser", input, i, Null)
                  ELSE last' = Returned("loginUser", input, NullId, Null)
    /\ UNCHANGED <<usersTable, usersSeq, paymentsTable, paymentsSeq,
                   disputesTable, disputesSeq, now, calls>>

loginUser(input) ==
    /\ last.op = "none"
    /\ \E user \in loginUserReturn(input) :
          last' = Returned("loginUser", input, user, Null)
    /\ UNCHANGED <<usersTable, usersSeq, paymentsTable, paymentsSeq,
                   disputesTable, disputesSeq, now, calls>>

(* ======================= createPayment ======================= *)

CreatePaymentInputs ==
    [user_id : UserIds, amount : Amounts, payment_date : Dates, month : Months,
     year : Years, receipt_photo_url : Urls, recorded_by_admin_id : UserIds]

\* As NumericScale2, had the column cut the decimals after the second place.
NumericScale2Truncate(amount) == amount \div 10

\* input.amount.toString() written to numeric(12,2): the column rounds the
\* decimal text to two places, half away from zero.  Result in hundredths.
NumericScale2(amount) == (amount + 5) \div 10

\* As createPaymentCheck, had the admin been looked up before the user.
createPaymentCheckAdminFirst(input) ==
    IF input.recorded_by_admin_id \notin DOMAIN usersTable
    THEN "Admin with ID not found"
    ELSE IF usersTable[input.recorded_by_admin_id].role # "admin_kelurahan"
    THEN "User with ID is not an admin"
    ELSE IF input.user_id \notin DOMAIN usersTable
    THEN "User with ID not found"
    ELSE "ok"

\* As createPaymentCheck, without the lookup of the paying user.
createPaymentCheckNoUser(input) ==
    IF input.recorded_by_admin_id \notin DOMAIN usersTable
    THEN "Admin with ID not found"
    ELSE IF usersTable[input.recorded_by_admin_id].role # "admin_kelurahan"
    THEN "User with ID is not an admin"
    ELSE "ok"

\* The checks createPayment makes before it inserts, in the order it makes them.
createPaymentCheck(input) ==
    IF input.user_id \notin DOMAIN usersTable
    THEN "User with ID not found"
    ELSE IF input.recorded_by_admin_id \notin DOMAIN usersTable
    THEN "Admin with ID not found"
    ELSE IF usersTable[input.recorded_by_admin_id].role # "admin_kelurahan"
    THEN "User with ID is not an admin"
    ELSE "ok"

createPaymentValues(input) ==
    [user_id |-> input.user_id,
     amount |-> NumericScale2(input.amount),
     payment_date |-> input.payment_date,
     month |-> input.month,
     year |-> input.year,
     receipt_photo_url |-> input.receipt_photo_url,
     recorded_by_admin_id |-> input.recorded_by_admin_id,
     created_at |-> now,
     updated_at |-> now]

createPayment(input) ==
    /\ last.op = "none"
    /\ IF createPaymentCheck(input) # "ok"
       THEN /\ UNCHANGED <<paymentsTable, paymentsSeq>>
            /\ last' = Thrown("createPayment", input, createPaymentCheck(input))
       ELSE /\ paymentsSeq < MaxPayments
            /\ paymentsSeq' = paymentsSeq + 1
            /\ paymentsTable' = Insert(paymentsTable, paymentsSeq + 1, createPaymentValues(input))
            /\ last' = Returned("createPayment", input, paymentsSeq + 1, Null)
    /\ UNCHANGED <<usersTable, usersSeq, disputesTable, disputesSeq, now, calls>>

(* ======================= updatePayment ======================= *)

UpdatePaymentFields == {"amount", "payment_date", "month", "year", "receipt_photo_url"}

\* Inputs the schema accepts: an id, and the optional keys of one of keySets.
UpdatePaymentInputsOver(keySets) ==
    {[f \in {"id"} \cup S |-> v[f]] :
        v \in [id : PaymentIds, amount : Amounts, payment_date : Dates,
               month : Months, year : Years, receipt_photo_url : Urls],
        S \in keySets}

UpdatePaymentInputs ==
    UpdatePaymentInputsOver({{}, {"amount"}, {"receipt_photo_url"}, UpdatePaymentFields})

\* As updatePaymentData, had the fields been tested for truth rather than
\* against undefined: a null receipt_photo_url is then left out.
updatePaymentDataTruthy(input) ==
    [c \in {"updated_at"} \cup
            {f \in (DOMAIN input) \cap UpdatePaymentFields :
                f = "receipt_photo_url" => input[f] # Null} |->
        IF c = "updated_at" THEN now
        ELSE IF c = "amount" THEN NumericScale2(input[c])
        ELSE input[c]]

\* As updatePaymentData, had updateData started with created_at as well.
updatePaymentDataTouchCreated(input) ==
    [c \in {"created_at", "updated_at"} \cup ((DOMAIN input) \cap UpdatePaymentFields) |->
        IF c \in {"created_at", "updated_at"} THEN now
        ELSE IF c = "amount" THEN NumericScale2(input[c])
        ELSE input[c]]

\* As updatePaymentData, had updated_at been set only beside another field.
updatePaymentDataLazyTimestamp(input) ==
    [c \in (IF DOMAIN input = {"id"} THEN {} ELSE {"updated_at"})
             \cup ((DOMAIN input) \cap UpdatePaymentFields) |->
        IF c = "updated_at" THEN now
        ELSE IF c = "amount" THEN NumericScale2(input[c])
        ELSE input[c]]

\* updateData: updated_at, and every field that is not undefined; the amount
\* goes through toString() into the numeric(12,2) column.
updatePaymentData(input) ==
    [c \in {"updated_at"} \cup ((DOMAIN input) \cap UpdatePaymentFields) |->
        IF c = "updated_at" THEN now
        ELSE IF c = "amount" THEN NumericScale2(input[c])
        ELSE input[c]]

\* As updatePayment, without the lookup of the existing payment: the UPDATE
\* matches no row and the call still returns.
updatePaymentNoLookup(input) ==
    /\ last.op = "none"
    /\ paymentsTable' = Update(paymentsTable, input.id, updatePaymentData(input))
    /\ last' = Returned("updatePayment", input, input.id,
                        IF input.id \in DOMAIN paymentsTable
                        THEN paymentsTable[input.id] ELSE Null)
    /\ UNCHANGED <<usersTable, usersSeq, paymentsSeq, disputesTable, disputesSeq, now, calls>>

updatePayment(input) ==
    /\ last.op = "none"
    /\ IF input.id \notin DOMAIN paymentsTable
       THEN /\ paymentsTable' = paymentsTable
            /\ last' = Thrown("updatePayment", input, "Payment not found")
       ELSE /\ paymentsTable' = Update(paymentsTable, input.id, updatePaymentData(input))
            /\ last' = Returned("updatePayment", input, input.id, paymentsTable[input.id])
    /\ UNCHANGED <<usersTable, usersSeq, paymentsSeq, disputesTable, disputesSeq, now, calls>>

(* ======================= getUserPayments, getAllPayments ======================= *)

\* The rows of a query on their way back to the caller.
Listed(op, input, rows) ==
    [op |-> op, input |-> input, result |-> "ok", id |-> NullId, existing |-> Null,
     rows |-> rows]

\* parseFloat of the text of a numeric(12,2) value: the number it spells, in
\* the unit of the input amounts (thousandths).
parseFloat(numeric) == numeric * 10

\* { ...payment, amount: parseFloat(payment.amount) }: the row under id as a
\* handler hands it back, with its id and the amount as a number.
paymentWithAmount(table, id) ==
    [c \in {"id"} \cup DOMAIN table[id] |->
        IF c = "id" THEN id
        ELSE IF c = "amount" THEN parseFloat(table[id].amount)
        ELSE table[id][c]]

\* Inputs of getUserPayments: a user_id, and optionally a year and a month.
GetUserPaymentsInputsOver(years, months) ==
    {[f \in {"user_id"} \cup S |-> v[f]] :
        v \in [user_id : UserIds, year : years, month : months],
        S \in SUBSET {"year", "month"}}

\* As getUserPaymentsConditions, had the month been looked at only within a
\* given year.
getUserPaymentsConditionsMonthInYear(input, payment) ==
    /\ payment.user_id = input.user_id
    /\ "year" \in DOMAIN input =>
          /\ payment.year = input.year
          /\ "month" \in DOMAIN input => payment.month = input.month

\* The conditions of the query: user_id always, year and month when given.
getUserPaymentsConditions(input, payment) ==
    /\ payment.user_id = input.user_id
    /\ "year" \in DOMAIN input => payment.year = input.year
    /\ "month" \in DOMAIN input => payment.month = input.month

getUserPaymentsResults(input) ==
    {paymentWithAmount(paymentsTable, id) :
        id \in {i \in DOMAIN paymentsTable :
                    getUserPaymentsConditions(input, paymentsTable[i])}}

getUserPayments(input) ==
    /\ last.op = "none"
    /\ last' = Listed("getUserPayments", input, getUserPaymentsResults(input))
    /\ UNCHANGED <<usersTable, usersSeq, paymentsTable, paymentsSeq,
                   disputesTable, disputesSeq, now, calls>>

getAllPaymentsResults ==
    {paymentWithAmount(paymentsTable, id) : id \in DOMAIN paymentsTable}

getAllPayments ==
    /\ last.op = "none"
    /\ last' = Listed("getAllPayments", Null, getAllPaymentsResults)
    /\ UNCHANGED <<usersTable, usersSeq, paymentsTable, paymentsSeq,
                   disputesTable, disputesSeq, now, calls>>

(* ======================= createDispute ======================= *)

\* What a caller may send besides the four keys of createDisputeInputSchema.
ExtraneousFields ==
    {[x \in {} |-> x],
     [status |-> "approved", admin_response |-> "checked", resolved_by_admin_id |-> 1]}

\* What callers send to createDispute: the four keys, and any extraneous ones.
CreateDisputeInputs ==
    {[f \in {"payment_id", "user_id", "dispute_reason", "evidence_photo_url"}
            \cup DOMAIN x |->
        IF f \in DOMAIN x THEN x[f] ELSE v[f]] :
        v \in [payment_id : PaymentIds, user_id : UserIds,
               dispute_reason : Reasons, evidence_photo_url : Urls],
        x \in ExtraneousFields}

\* As createDisputeCheck, without the comparison of the payment's owner.
createDisputeCheckNoOwner(input) ==
    IF input.payment_id \notin DOMAIN paymentsTable
    THEN "Payment not found"
    ELSE "ok"

\* As createDisputeCheck, had a payment been allowed one open dispute only.
createDisputeCheckOneOpen(input) ==
    IF input.payment_id \notin DOMAIN paymentsTable
    THEN "Payment not found"
    ELSE IF paymentsTable[input.payment_id].user_id # input.user_id
    THEN "Payment does not belong to this user"
    ELSE IF \E d \in DOMAIN disputesTable :
                /\ disputesTable[d].payment_id = input.payment_id
                /\ disputesTable[d].status = "pending"
    THEN "Payment already has an open dispute"
    ELSE "ok"

\* The checks createDispute makes before it inserts, in the order it makes them.
createDisputeCheck(input) ==
    IF input.payment_id \notin DOMAIN paymentsTable
    THEN "Payment not found"
    ELSE IF paymentsTable[input.payment_id].user_id # input.user_id
    THEN "Payment does not belong to this user"
    ELSE "ok"

\* As createDisputeValues, had the handler spread the caller's input into the row.
createDisputeValuesSpread(input) ==
    [payment_id |-> input.payment_id,
     user_id |-> input.user_id,
     dispute_reason |-> input.dispute_reason,
     evidence_photo_url |-> input.evidence_photo_url,
     status |-> IF "status" \in DOMAIN input THEN input.status ELSE "pending",
     admin_response |->
        IF "admin_response" \in DOMAIN input THEN input.admin_response ELSE Null,
     resolved_by_admin_id |->
        IF "resolved_by_admin_id" \in DOMAIN input
        THEN input.resolved_by_admin_id ELSE NullId,
     created_at |-> now,
     updated_at |-> now]

\* The row inserted: the values the handler names, the column defaults of
\* disputesTable for the rest (admin_response and resolved_by_admin_id have
\* none and are NULL, created_at and updated_at default to now).
createDisputeValues(input) ==
    [payment_id |-> input.payment_id,
     user_id |-> input.user_id,
     dispute_reason |-> input.dispute_reason,
     evidence_photo_url |-> input.evidence_photo_url,
     status |-> "pending",
     admin_response |-> Null,
     resolved_by_admin_id |-> NullId,
     created_at |-> now,
     updated_at |-> now]

\* As createDispute, had the insert been written before the checks.
createDisputeInsertFirst(input) ==
    /\ last.op = "none"
    /\ disputesSeq < MaxDisputes
    /\ disputesSeq' = disputesSeq + 1
    /\ disputesTable' = Insert(disputesTable, disputesSeq + 1, createDisputeValues(input))
    /\ IF createDisputeCheck(input) # "ok"
       THEN last' = Thrown("createDispute", input, createDisputeCheck(input))
       ELSE last' = Returned("createDispute", input, disputesSeq + 1, Null)
    /\ UNCHANGED <<usersTable, usersSeq, paymentsTable, paymentsSeq, now, calls>>

createDispute(input) ==
    /\ last.op = "none"
    /\ IF createDisputeCheck(input) # "ok"
       THEN /\ UNCHANGED <<disputesTable, disputesSeq>>
            /\ last' = Thrown("createDispute", input, createDisputeCheck(input))
       ELSE /\ disputesSeq < MaxDisputes
            /\ disputesSeq' = disputesSeq + 1
            /\ disputesTable' = Insert(disputesTable, disputesSeq + 1, createDisputeValues(input))
            /\ last' = Returned("createDispute", input, disputesSeq + 1, Null)
    /\ UNCHANGED <<usersTable, usersSeq, paymentsTable, paymentsSeq, now, calls>>

(* ======================= resolveDispute ======================= *)

\* resolveDisputeInputSchema: status is any value of disputeStatusSchema.
ResolveDisputeInputs ==
    [id : DisputeIds, status : disputeStatusEnum, admin_response : Responses,
     resolved_by_admin_id : UserIds]

\* As resolveDisputeCheck, had the dispute been looked up before the admin.
resolveDisputeCheckDisputeFirst(input) ==
    IF input.id \notin DOMAIN disputesTable
    THEN "Dispute not found"
    ELSE IF input.resolved_by_admin_id \notin DOMAIN usersTable
    THEN "Admin user not found"
    ELSE IF usersTable[input.resolved_by_admin_id].role # "admin_kelurahan"
    THEN "User is not authorized to resolve disputes"
    ELSE "ok"

\* As resolveDisputeCheck, without the comparison of the resolver's role.
resolveDisputeCheckNoRole(input) ==
    IF input.resolved_by_admin_id \notin DOMAIN usersTable
    THEN "Admin user not found"
    ELSE IF input.id \notin DOMAIN disputesTable
    THEN "Dispute not found"
    ELSE "ok"

\* The checks resolveDispute makes before it updates, in the order it makes them.
resolveDisputeCheck(input) ==
    IF input.resolved_by_admin_id \notin DOMAIN usersTable
    THEN "Admin user not found"
    ELSE IF usersTable[input.resolved_by_admin_id].role # "admin_kelurahan"
    THEN "User is not authorized to resolve disputes"
    ELSE IF input.id \notin DOMAIN disputesTable
    THEN "Dispute not found"
    ELSE "ok"

\* As resolveDisputeSet, had updated_at been left out of the SET clause.
resolveDisputeSetNoTimestamp(input) ==
    [status |-> input.status,
     admin_response |-> input.admin_response,
     resolved_by_admin_id |-> input.resolved_by_admin_id]

\* As resolveDisputeSet, had a null admin_response kept the stored response.
resolveDisputeSetKeepResponse(input) ==
    [status |-> input.status,
     admin_response |->
        IF input.admin_response = Null /\ input.id \in DOMAIN disputesTable
        THEN disputesTable[input.id].admin_response
        ELSE input.admin_response,
     resolved_by_admin_id |-> input.resolved_by_admin_id,
     updated_at |-> now]

resolveDisputeSet(input) ==
    [status |-> input.status,
     admin_response |-> input.admin_response,
     resolved_by_admin_id |-> input.resolved_by_admin_id,
     updated_at |-> now]

\* As resolveDispute, had the UPDATE been issued before the checks.
resolveDisputeWriteFirst(input) ==
    /\ last.op = "none"
    /\ disputesTable' = Update(disputesTable, input.id, resolveDisputeSet(input))
    /\ IF resolveDisputeCheck(input) # "ok"
       THEN last' = Thrown("resolveDispute", input, resolveDisputeCheck(input))
       ELSE last' = Returned("resolveDispute", input, input.id, disputesTable[input.id])
    /\ UNCHANGED <<usersTable, usersSeq, paymentsTable, paymentsSeq, disputesSeq, now, calls>>

resolveDispute(input) ==
    /\ last.op = "none"
    /\ IF resolveDisputeCheck(input) # "ok"
       THEN /\ disputesTable' = disputesTable
            /\ last' = Thrown("resolveDispute", input, resolveDisputeCheck(input))
       ELSE /\ disputesTable' = Update(disputesTable, input.id, resolveDisputeSet(input))
            /\ last' = Returned("resolveDispute", input, input.id, disputesTable[input.id])
    /\ UNCHANGED <<usersTable, usersSeq, paymentsTable, paymentsSeq, disputesSeq, now, calls>>

(* ======================= getUserDisputes, getAllDisputes ======================= *)

\* Inputs of getUserDisputes: a user_id, and optionally a status.
GetUserDisputesInputs ==
    [user_id : UserIds] \cup [user_id : UserIds, status : disputeStatusEnum]

\* The row under id as a handler hands it back, with its id.
disputeWithId(table, id) ==
    [c \in {"id"} \cup DOMAIN table[id] |-> IF c = "id" THEN id ELSE table[id][c]]

\* The conditions of the query: user_id always, status when the input has a
\* status that is not falsy (no status of the enum is).
getUserDisputesConditions(input, dispute) ==
    /\ dispute.user_id = input.user_id
    /\ ("status" \in DOMAIN input /\ input.status # "") => dispute.status = input.status

getUserDisputesResults(input) ==
    {disputeWithId(disputesTable, id) :
        id \in {i \in DOMAIN disputesTable :
                    getUserDisputesConditions(input, disputesTable[i])}}

getUserDisputes(input) ==
    /\ last.op = "none"
    /\ last' = Listed("getUserDisputes", input, getUserDisputesResults(input))
    /\ UNCHANGED <<usersTable, usersSeq, paymentsTable, paymentsSeq,
                   disputesTable, disputesSeq, now, calls>>

\* As getAllDisputesJoin, had users been joined on resolved_by_admin_id.
getAllDisputesJoinResolver ==
    {t \in (DOMAIN disputesTable) \X (DOMAIN usersTable) \X (DOMAIN paymentsTable) :
        /\ disputesTable[t[1]].resolved_by_admin_id = t[2]
        /\ disputesTable[t[1]].payment_id = t[3]}

\* disputes INNER JOIN users ON disputes.user_id = users.id
\*          INNER JOIN payments ON disputes.payment_id = payments.id:
\* one joined row for every matching triple of a dispute, a user and a payment.
getAllDisputesJoin ==
    {t \in (DOMAIN disputesTable) \X (DOMAIN usersTable) \X (DOMAIN paymentsTable) :
        /\ disputesTable[t[1]].user_id = t[2]
        /\ disputesTable[t[1]].payment_id = t[3]}

\* results.map(result => ({id: result.disputes.id, ...})): the Dispute object
\* of every joined row.
getAllDisputesResults ==
    [t \in getAllDisputesJoin |-> disputeWithId(disputesTable, t[1])]

getAllDisputes ==
    /\ last.op = "none"
    /\ last' = Listed("getAllDisputes", Null, getAllDisputesResults)
    /\ UNCHANGED <<usersTable, usersSeq, paymentsTable, paymentsSeq,
                   disputesTable, disputesSeq, now, calls>>

(* ======================= overlapping calls ======================= *)

\* A call at its next statement, and a call that has returned or thrown; both
\* keep the row the call's SELECT read.
AtStatement(op, input, pc, existing) ==
    [op |-> op, input |-> input, pc |-> pc, result |-> "ok", existing |-> existing]

Done(op, input, message, existing) ==
    [op |-> op, input |-> input, pc |-> "done", result |-> message, existing |-> existing]

\* resolveDispute, first statement: SELECT the admin, and check the role.
resolveDisputeSelectAdmin(p, input) ==
    /\ calls[p].pc = "idle"
    /\ calls' = [calls EXCEPT ![p] =
          IF input.resolved_by_admin_id \notin DOMAIN usersTable
          THEN Done("resolveDispute", input, "Admin user not found", Null)
          ELSE IF usersTable[input.resolved_by_admin_id].role # "admin_kelurahan"
          THEN Done("resolveDispute", input, "User is not authorized to resolve disputes", Null)
          ELSE AtStatement("resolveDispute", input, "selectDispute", Null)]
    /\ UNCHANGED <<usersTable, usersSeq, paymentsTable, paymentsSeq,
                   disputesTable, disputesSeq, now, last>>

\* resolveDispute, second statement: SELECT the dispute.
resolveDisputeSelectDispute(p) ==
    /\ calls[p].op = "resolveDispute"
    /\ calls[p].pc = "selectDispute"
    /\ calls' = [calls EXCEPT ![p] =
          IF calls[p].input.id \notin DOMAIN disputesTable
          THEN Done("resolveDispute", calls[p].input, "Dispute not found", Null)
          ELSE AtStatement("resolveDispute", calls[p].input, "update",
                           disputesTable[calls[p].input.id])]
    /\ UNCHANGED <<usersTable, usersSeq, paymentsTable, paymentsSeq,
                   disputesTable, disputesSeq, now, last>>

\* As resolveDisputeUpdate, had the resolution been written by two UPDATEs:
\* status and admin_response first, resolved_by_admin_id and updated_at after.
resolveDisputeUpdateInTwo(p) ==
    /\ calls[p].op = "resolveDispute"
    /\ calls[p].pc \in {"update", "updateRest"}
    /\ disputesTable' = Update(disputesTable, calls[p].input.id,
          IF calls[p].pc = "update"
          THEN [status |-> calls[p].input.status,
                admin_response |-> calls[p].input.admin_response]
          ELSE [resolved_by_admin_id |-> calls[p].input.resolved_by_admin_id,
                updated_at |-> now])
    /\ calls' = [calls EXCEPT ![p] =
          IF calls[p].pc = "update"
          THEN AtStatement("resolveDispute", calls[p].input, "updateRest", calls[p].existing)
          ELSE Done("resolveDispute", calls[p].input, "ok", calls[p].existing)]
    /\ UNCHANGED <<usersTable, usersSeq, paymentsTable, paymentsSeq,
                   disputesSeq, now, last>>

\* resolveDispute, third statement: the UPDATE, and the return of its row.
resolveDisputeUpdate(p) ==
    /\ calls[p].op = "resolveDispute"
    /\ calls[p].pc = "update"
    /\ disputesTable' = Update(disputesTable, calls[p].input.id,
                               resolveDisputeSet(calls[p].input))
    /\ calls' = [calls EXCEPT ![p] = Done("resolveDispute", calls[p].input, "ok", calls[p].existing)]
    /\ UNCHANGED <<usersTable, usersSeq, paymentsTable, paymentsSeq,
                   disputesSeq, now, last>>

\* updatePayment, first statement: SELECT the existing payment.
updatePaymentSelect(p, input) ==
    /\ calls[p].pc = "idle"
    /\ calls' = [calls EXCEPT ![p] =
          IF input.id \notin DOMAIN paymentsTable
          THEN Done("updatePayment", input, "Payment not found", Null)
          ELSE AtStatement("updatePayment", input, "update", paymentsTable[input.id])]
    /\ UNCHANGED <<usersTable, usersSeq, paymentsTable, paymentsSeq,
                   disputesTable, disputesSeq, now, last>>

\* As updatePaymentUpdate, had the UPDATE written the whole row: the row the
\* SELECT read, with the fields of the input laid over it.
updatePaymentUpdateWholeRow(p) ==
    /\ calls[p].op = "updatePayment"
    /\ calls[p].pc = "update"
    /\ paymentsTable' = [paymentsTable EXCEPT ![calls[p].input.id] =
          [c \in DOMAIN calls[p].existing |->
              IF c \in DOMAIN updatePaymentData(calls[p].input)
              THEN updatePaymentData(calls[p].input)[c]
              ELSE calls[p].existing[c]]]
    /\ calls' = [calls EXCEPT ![p] = Done("updatePayment", calls[p].input, "ok", calls[p].existing)]
    /\ UNCHANGED <<usersTable, usersSeq, paymentsSeq,
                   disputesTable, disputesSeq, now, last>>

\* updatePayment, second statement: the UPDATE of the fields in updateData,
\* and the return of its row.
updatePaymentUpdate(p) ==
    /\ calls[p].op = "updatePayment"
    /\ calls[p].pc = "update"
    /\ paymentsTable' = Update(paymentsTable, calls[p].input.id,
                               updatePaymentData(calls[p].input))
    /\ calls' = [calls EXCEPT ![p] = Done("updatePayment", calls[p].input, "ok", calls[p].existing)]
    /\ UNCHANGED <<usersTable, usersSeq, paymentsSeq,
                   disputesTable, disputesSeq, now, last>>

(* ======================= clock ======================= *)

Tick ==
    /\ now < MaxTime
    /\ now' = now + 1
    /\ UNCHANGED <<usersTable, usersSeq, paymentsTable, paymentsSeq,
                   disputesTable, disputesSeq, last, calls>>

\* The caller takes the result of its call; it may then make the next call.
Return ==
    /\ last.op # "none"
    /\ last' = NoCall
    /\ UNCHANGED <<usersTable, usersSeq, paymentsTable, paymentsSeq,
                   disputesTable, disputesSeq, now, calls>>

Init ==
    /\ usersTable = EmptyTable
    /\ usersSeq = 0
    /\ paymentsTable = EmptyTable
    /\ paymentsSeq = 0
    /\ disputesTable = EmptyTable
    /\ disputesSeq = 0
    /\ now = 0
    /\ last = NoCall
    /\ calls = [p \in Callers |-> Idle]

Next ==
    \/ \E input \in CreateUserInputs : createUser(input)
    \/ \E input \in UpdateUserInputs : updateUser(input)
    \/ \E input \in CreatePaymentInputs : createPayment(input)
    \/ \E input \in UpdatePaymentInputs : updatePayment(input)
    \/ \E input \in CreateDisputeInputs : createDispute(input)
    \/ \E input \in ResolveDisputeInputs : resolveDispute(input)
    \/ Return

Spec == Init /\ [][Next]_vars

\* The same handlers under a clock that advances between calls.  One citizen
\* and one admin register, payments are of one amount, and an update names no
\* optional key; disputes are created and resolved with every input as above.
ClockCreateUserInputs ==
    {u \in CreateUserInputs :
        \/ u.username = "alice" /\ u.role = "warga"
        \/ u.username = "budi" /\ u.role = "admin_kelurahan"}

ClockCreatePaymentInputs == {p \in CreatePaymentInputs : p.amount = 25000}

NextClock ==
    \/ \E input \in ClockCreateUserInputs : createUser(input)
    \/ \E input \in UpdateUserInputsOver({{}}) : updateUser(input)
    \/ \E input \in ClockCreatePaymentInputs : createPayment(input)
    \/ \E input \in UpdatePaymentInputsOver({{}}) : updatePayment(input)
    \/ \E input \in CreateDisputeInputs : createDispute(input)
    \/ \E input \in ResolveDisputeInputs : resolveDispute(input)
    \/ Return
    \/ Tick

SpecClock == Init /\ [][NextClock]_vars

(* ======================= the payment ledger ======================= *)

\* A payment is recorded with or without a receipt, and later corrected: an
\* update may name any of the five optional keys, and the values it brings
\* differ from those a payment is recorded with, except the null receipt.
ReceiptUrls == {Null, "https://example.com/receipt.jpg"}
NewAmounts == {1005, 123456}
NewDates == {2}
NewMonths == {7}
NewYears == {2025}
NewUrls == {Null, "https://example.com/new-receipt.jpg"}

LedgerCreatePaymentInputs ==
    [user_id : UserIds, amount : Amounts, payment_date : Dates, month : Months,
     year : Years, receipt_photo_url : ReceiptUrls, recorded_by_admin_id : UserIds]

LedgerUpdatePaymentInputs ==
    {[f \in {"id"} \cup S |-> v[f]] :
        v \in [id : PaymentIds, amount : NewAmounts, payment_date : NewDates,
               month : NewMonths, year : NewYears, receipt_photo_url : NewUrls],
        S \in SUBSET UpdatePaymentFields}

\* One citizen and one admin register; payments are recorded, corrected and
\* read back while the clock advances.
NextLedger ==
    \/ \E input \in ClockCreateUserInputs : createUser(input)
    \/ \E input \in LedgerCreatePaymentInputs : createPayment(input)
    \/ \E input \in LedgerUpdatePaymentInputs : updatePayment(input)
    \/ \E input \in GetUserPaymentsInputsOver(Years \cup NewYears, Months \cup NewMonths) :
          getUserPayments(input)
    \/ getAllPayments
    \/ Return
    \/ Tick

SpecLedger == Init /\ [][NextLedger]_vars

(* ======================= the citizen register ======================= *)

\* One citizen and one admin register and their records are corrected: an
\* update may name any of the five optional keys, and the values it brings
\* differ from those a user registers with.  The clock advances.
NewFullNames == {"Ani Wijaya"}
NewNiks == {"3333444455556666"}
NewNoKks == {"7777888899990000"}
NewAddresses == {"Jl. Sudirman 2"}
NewRts == {"002"}

RegisterUpdateUserInputs ==
    {[f \in {"id"} \cup S |-> v[f]] :
        v \in [id : UserIds, full_name : NewFullNames, nik : NewNiks, no_kk : NewNoKks,
               home_address : NewAddresses, rt : NewRts],
        S \in SUBSET UpdateUserFields}

NextRegister ==
    \/ \E input \in ClockCreateUserInputs : createUser(input)
    \/ \E input \in RegisterUpdateUserInputs : updateUser(input)
    \/ Return
    \/ Tick

SpecRegister == Init /\ [][NextRegister]_vars

(* ======================= registration and login ======================= *)

\* People register under a name (two of the names differ in letter case
\* only), with either nik, in either role and with one of two passwords; they log in with any credentials; their
\* records are updated as in Spec, or get a new full_name or a nik that
\* nobody registered with.  The clock stands still.
RegisterUsernames == Usernames \cup {"Alice"}
RegisterPasswords == {"secret1", "secret2"}

RegisterInputs ==
    [username : RegisterUsernames, password : RegisterPasswords, role : userRoleEnum,
     full_name : FullNames, nik : Niks, no_kk : NoKks,
     home_address : Addresses, rt : Rts]

UsersUpdateUserInputs ==
    UpdateUserInputs \cup
    {u \in RegisterUpdateUserInputs : DOMAIN u \subseteq {"id", "full_name", "nik"}}

NextUsers ==
    \/ \E input \in RegisterInputs : createUser(input)
    \/ \E input \in UsersUpdateUserInputs : updateUser(input)
    \/ \E input \in LoginInputs : loginUser(input)
    \/ Return

SpecUsers == Init /\ [][NextUsers]_vars

(* ======================= the views ======================= *)

\* The handlers of Spec, and between their calls the views of the stored
\* payments and disputes.
NextViews ==
    \/ Next
    \/ \E input \in GetUserDisputesInputs : getUserDisputes(input)
    \/ getAllDisputes
    \/ getAllPayments

SpecViews == Init /\ [][NextViews]_vars

(* ======================= two callers at once ======================= *)

\* Alice and the admin budi register, a payment is recorded and disputed, and
\* each of the two callers makes one call, resolveDispute on dispute 1 or
\* updatePayment on payment 1, and the statements of the two calls interleave.
RaceCreateUserInputs ==
    {u \in CreateUserInputs : u.username = "budi" => u.role = "admin_kelurahan"}

RaceCreatePaymentInputs ==
    {p \in ClockCreatePaymentInputs : p.user_id # p.recorded_by_admin_id}

RaceCreateDisputeInputs ==
    {d \in CreateDisputeInputs :
        DOMAIN d = {"payment_id", "user_id", "dispute_reason", "evidence_photo_url"}}

RaceResolveDisputeInputs == {r \in ResolveDisputeInputs : r.id = 1}

RaceUpdatePaymentInputs ==
    {u \in LedgerUpdatePaymentInputs :
        /\ u.id = 1
        /\ DOMAIN u \in {{"id"}, {"id", "amount"}, {"id", "month"},
                         {"id", "receipt_photo_url"}, {"id", "amount", "month"},
                         {"id", "month", "year"}}
        /\ "amount" \in DOMAIN u => u.amount = 123456}

NextRace ==
    \/ \E input \in RaceCreateUserInputs : createUser(input)
    \/ \E input \in RaceCreatePaymentInputs : createPayment(input)
    \/ \E input \in RaceCreateDisputeInputs : createDispute(input)
    \/ Return
    \/ \E p \in Callers, input \in RaceResolveDisputeInputs : resolveDisputeSelectAdmin(p, input)
    \/ \E p \in Callers : resolveDisputeSelectDispute(p)
    \/ \E p \in Callers : resolveDisputeUpdate(p)
    \/ \E p \in Callers, input \in RaceUpdatePaymentInputs : updatePaymentSelect(p, input)
    \/ \E p \in Callers : updatePaymentUpdate(p)

SpecRace == Init /\ [][NextRace]_vars

(* ================================================================== *)
(* Claims                                                             *)
(* ================================================================== *)

\* C1: whenever createDispute is given a payment that exists and belongs to
\* input.user_id, it succeeds, and the dispute it stored and returned has
\* status pending, admin_response null and resolved_by_admin_id null,
\* whatever extraneous keys the caller sent along.
C1_CreatedDisputeIsPending ==
    (/\ last.op = "createDispute"
     /\ last.input.payment_id \in DOMAIN paymentsTable
     /\ paymentsTable[last.input.payment_id].user_id = last.input.user_id)
    => /\ last.result = "ok"
       /\ last.id \in DOMAIN disputesTable
       /\ disputesTable[last.id].status = "pending"
       /\ disputesTable[last.id].admin_response = Null
       /\ disputesTable[last.id].resolved_by_admin_id = NullId

\* C1 witness: a dispute was created by a caller who also sent status,
\* admin_response and resolved_by_admin_id.
C1_Witness ==
    /\ last.op = "createDispute"
    /\ last.result = "ok"
    /\ {"status", "admin_response", "resolved_by_admin_id"} \subseteq DOMAIN last.input
    /\ last.input.status = "approved"

\* C2: a createDispute call whose payment_id names no stored payment throws
\* "Payment not found"; otherwise, if the payment's user_id differs from
\* input.user_id, it throws "Payment does not belong to this user"; and a call
\* that throws adds no dispute row.
C2_CreateDisputeChecksInOrder ==
    [][(last.op = "none" /\ last'.op = "createDispute") =>
        /\ last'.input.payment_id \notin DOMAIN paymentsTable
            => last'.result = "Payment not found"
        /\ (/\ last'.input.payment_id \in DOMAIN paymentsTable
            /\ paymentsTable[last'.input.payment_id].user_id # last'.input.user_id)
            => last'.result = "Payment does not belong to this user"
        /\ last'.result # "ok"
            => /\ disputesTable' = disputesTable
               /\ disputesSeq' = disputesSeq]_vars

\* C2 witness: a call for an existing payment of another user was refused.
C2_Witness ==
    /\ last.op = "createDispute"
    /\ last.input.payment_id \in DOMAIN paymentsTable
    /\ last.input.user_id \in DOMAIN usersTable
    /\ last.result = "Payment does not belong to this user"

\* C3: every stored dispute's user_id is the user_id of the payment that its
\* payment_id references.
C3_DisputeOwnerIsPaymentOwner ==
    \A d \in DOMAIN disputesTable :
        /\ disputesTable[d].payment_id \in DOMAIN paymentsTable
        /\ disputesTable[d].user_id = paymentsTable[disputesTable[d].payment_id].user_id

\* C3 witness: a payment that has a resolved dispute has just been updated
\* with every optional key present.
C3_Witness ==
    /\ last.op = "updatePayment"
    /\ last.result = "ok"
    /\ DOMAIN last.input = {"id"} \cup UpdatePaymentFields
    /\ \E d \in DOMAIN disputesTable :
        /\ disputesTable[d].payment_id = last.id
        /\ disputesTable[d].status # "pending"

\* C4: resolveDispute throws "Admin user not found" when resolved_by_admin_id
\* names no user; else "User is not authorized to resolve disputes" when that
\* user is not an admin; else "Dispute not found" when id names no dispute;
\* so a missing dispute is reported only to an existing admin.
C4_ResolveDisputeChecksInOrder ==
    last.op = "resolveDispute" =>
        /\ last.input.resolved_by_admin_id \notin DOMAIN usersTable
            => last.result = "Admin user not found"
        /\ (/\ last.input.resolved_by_admin_id \in DOMAIN usersTable
            /\ usersTable[last.input.resolved_by_admin_id].role # "admin_kelurahan")
            => last.result = "User is not authorized to resolve disputes"
        /\ (/\ last.input.resolved_by_admin_id \in DOMAIN usersTable
            /\ usersTable[last.input.resolved_by_admin_id].role = "admin_kelurahan"
            /\ last.input.id \notin DOMAIN disputesTable)
            => last.result = "Dispute not found"

\* C4 witness: a citizen tried to resolve a dispute that does not exist while
\* other disputes do, and was refused as not authorized.
C4_Witness ==
    /\ last.op = "resolveDispute"
    /\ last.input.resolved_by_admin_id \in DOMAIN usersTable
    /\ usersTable[last.input.resolved_by_admin_id].role = "warga"
    /\ last.input.id \notin DOMAIN disputesTable
    /\ disputesTable # EmptyTable
    /\ last.result = "User is not authorized to resolve disputes"

\* C5: a successful resolveDispute on dispute D sets D's status,
\* admin_response and resolved_by_admin_id to the input values and its
\* updated_at to the time of the call, leaves D's payment_id, user_id,
\* dispute_reason, evidence_photo_url and created_at as they were, and changes
\* no other dispute, no payment and no user.
C5_ResolveDisputeFrame ==
    [][(last.op = "none" /\ last'.op = "resolveDispute" /\ last'.result = "ok") =>
        /\ last'.input.id \in DOMAIN disputesTable
        /\ DOMAIN disputesTable' = DOMAIN disputesTable
        /\ disputesTable'[last'.input.id].status = last'.input.status
        /\ disputesTable'[last'.input.id].admin_response = last'.input.admin_response
        /\ disputesTable'[last'.input.id].resolved_by_admin_id
              = last'.input.resolved_by_admin_id
        /\ disputesTable'[last'.input.id].updated_at = now
        /\ \A c \in {"payment_id", "user_id", "dispute_reason",
                     "evidence_photo_url", "created_at"} :
              disputesTable'[last'.input.id][c] = disputesTable[last'.input.id][c]
        /\ \A d \in (DOMAIN disputesTable) \ {last'.input.id} :
              disputesTable'[d] = disputesTable[d]
        /\ UNCHANGED <<usersTable, usersSeq, paymentsTable, paymentsSeq,
                       disputesSeq>>]_vars

\* C5 witness: a dispute created earlier was resolved with a null
\* admin_response at a later time, while another dispute is stored.
C5_Witness ==
    /\ last.op = "resolveDispute"
    /\ last.result = "ok"
    /\ last.input.admin_response = Null
    /\ disputesTable[last.id].updated_at > disputesTable[last.id].created_at
    /\ last.existing.updated_at < now
    /\ \E d \in DOMAIN disputesTable : d # last.id

\* C6: a resolveDispute call by an admin on a dispute that was already resolved
\* succeeds, and afterwards the stored status, admin_response and
\* resolved_by_admin_id are those of this call, whatever the earlier one wrote.
C6_ResolveAgainLastWriteWins ==
    (/\ last.op = "resolveDispute"
     /\ last.input.id \in DOMAIN disputesTable
     /\ last.input.resolved_by_admin_id \in DOMAIN usersTable
     /\ usersTable[last.input.resolved_by_admin_id].role = "admin_kelurahan")
    => /\ last.result = "ok"
       /\ disputesTable[last.id].status = last.input.status
       /\ disputesTable[last.id].admin_response = last.input.admin_response
       /\ disputesTable[last.id].resolved_by_admin_id = last.input.resolved_by_admin_id

\* C6 witness: a dispute that an admin had approved with a response was
\* resolved again, as rejected and with a null response.
C6_Witness ==
    /\ last.op = "resolveDispute"
    /\ last.result = "ok"
    /\ last.existing.status = "approved"
    /\ last.existing.admin_response # Null
    /\ last.existing.resolved_by_admin_id # NullId
    /\ last.input.status = "rejected"
    /\ last.input.admin_response = Null

\* C7 (as claimed): once a dispute's status is not pending, no step makes it
\* pending again, and after a successful resolveDispute the dispute's status
\* is approved or rejected.
C7_NeverBackToPending ==
    [][/\ \A d \in DOMAIN disputesTable :
            disputesTable[d].status # "pending" => disputesTable'[d].status # "pending"
       /\ (last'.op = "resolveDispute" /\ last'.result = "ok")
            => disputesTable'[last'.id].status \in {"approved", "rejected"}]_vars

\* C8: createPayment throws "User with ID not found" when user_id names no
\* user; else "Admin with ID not found" when recorded_by_admin_id names no
\* user; else "User with ID is not an admin" when that user is not an admin;
\* a call that throws stores nothing; and a call that returns has passed all
\* three checks and inserted exactly one payment row.
C8_CreatePaymentChecksInOrder ==
    [][(last.op = "none" /\ last'.op = "createPayment") =>
        /\ last'.input.user_id \notin DOMAIN usersTable
            => last'.result = "User with ID not found"
        /\ (/\ last'.input.user_id \in DOMAIN usersTable
            /\ last'.input.recorded_by_admin_id \notin DOMAIN usersTable)
            => last'.result = "Admin with ID not found"
        /\ (/\ last'.input.user_id \in DOMAIN usersTable
            /\ last'.input.recorded_by_admin_id \in DOMAIN usersTable
            /\ usersTable[last'.input.recorded_by_admin_id].role # "admin_kelurahan")
            => last'.result = "User with ID is not an admin"
        /\ last'.result # "ok"
            => UNCHANGED <<usersTable, usersSeq, paymentsTable, paymentsSeq,
                           disputesTable, disputesSeq>>
        /\ last'.result = "ok"
            => /\ last'.input.user_id \in DOMAIN usersTable
               /\ last'.input.recorded_by_admin_id \in DOMAIN usersTable
               /\ usersTable[last'.input.recorded_by_admin_id].role = "admin_kelurahan"
               /\ last'.id \notin DOMAIN paymentsTable
               /\ DOMAIN paymentsTable' = (DOMAIN paymentsTable) \cup {last'.id}
               /\ \A q \in DOMAIN paymentsTable : paymentsTable'[q] = paymentsTable[q]]_vars

\* C8 witness: a call naming neither a stored user nor a stored admin was
\* refused for the user, while users are stored.
C8_Witness ==
    /\ last.op = "createPayment"
    /\ last.input.user_id \notin DOMAIN usersTable
    /\ last.input.recorded_by_admin_id \notin DOMAIN usersTable
    /\ usersTable # EmptyTable
    /\ last.result = "User with ID not found"

\* C9: every payment's recorded_by_admin_id, and every dispute's
\* resolved_by_admin_id that is not null, names a stored user whose role is
\* admin_kelurahan.
C9_RecorderAndResolverAreAdmins ==
    /\ \A q \in DOMAIN paymentsTable :
        /\ paymentsTable[q].recorded_by_admin_id \in DOMAIN usersTable
        /\ usersTable[paymentsTable[q].recorded_by_admin_id].role = "admin_kelurahan"
    /\ \A d \in DOMAIN disputesTable :
        disputesTable[d].resolved_by_admin_id # NullId
        => /\ disputesTable[d].resolved_by_admin_id \in DOMAIN usersTable
           /\ usersTable[disputesTable[d].resolved_by_admin_id].role = "admin_kelurahan"

\* C9 witness: the admin who recorded a payment and resolved a dispute has
\* just been updated with every profile key present.
C9_Witness ==
    /\ last.op = "updateUser"
    /\ last.result = "ok"
    /\ DOMAIN last.input = {"id"} \cup UpdateUserFields
    /\ \E q \in DOMAIN paymentsTable : paymentsTable[q].recorded_by_admin_id = last.id
    /\ \E d \in DOMAIN disputesTable : disputesTable[d].resolved_by_admin_id = last.id

\* C10 (as claimed): every stored payment's user_id names a user whose role is
\* warga.
C10_PayerIsCitizen ==
    \A q \in DOMAIN paymentsTable :
        /\ paymentsTable[q].user_id \in DOMAIN usersTable
        /\ usersTable[paymentsTable[q].user_id].role = "warga"

\* C10 (amended): every stored payment's user_id names a stored user, of
\* either role.
C10_PayerIsStoredUser ==
    \A q \in DOMAIN paymentsTable :
        /\ paymentsTable[q].user_id \in DOMAIN usersTable
        /\ usersTable[paymentsTable[q].user_id].role \in userRoleEnum

\* C10 witness: a payment is stored whose payer is an admin.
C10_Witness ==
    \E q \in DOMAIN paymentsTable :
        /\ paymentsTable[q].user_id \in DOMAIN usersTable
        /\ usersTable[paymentsTable[q].user_id].role = "admin_kelurahan"

\* C11: an updatePayment that succeeds writes each of amount, payment_date,
\* month, year and receipt_photo_url that its input carries (the amount to the
\* cent, a null receipt_photo_url as null) and leaves each one the input omits
\* as it was; an input of the id alone changes no column but updated_at.
C11_UpdatePaymentFieldWise ==
    (last.op = "updatePayment" /\ last.result = "ok") =>
        /\ \A f \in UpdatePaymentFields \ {"amount"} :
              paymentsTable[last.id][f] =
                  IF f \in DOMAIN last.input THEN last.input[f] ELSE last.existing[f]
        /\ IF "amount" \in DOMAIN last.input
           THEN /\ parseFloat(paymentsTable[last.id].amount) - last.input.amount <= 5
                /\ last.input.amount - parseFloat(paymentsTable[last.id].amount) <= 5
           ELSE paymentsTable[last.id].amount = last.existing.amount
        /\ DOMAIN last.input = {"id"} =>
              \A c \in (DOMAIN last.existing) \ {"updated_at"} :
                  paymentsTable[last.id][c] = last.existing[c]

\* A receipt that was stored is set to null by an update naming only that key.
C11_Witness ==
    /\ last.op = "updatePayment"
    /\ last.result = "ok"
    /\ DOMAIN last.input = {"id", "receipt_photo_url"}
    /\ last.input.receipt_photo_url = Null
    /\ last.existing.receipt_photo_url # Null
    /\ paymentsTable[last.id].receipt_photo_url = Null
    /\ paymentsTable[last.id].updated_at > last.existing.updated_at

\* C12: a payment enters the table only by createPayment, under a fresh id and
\* with the user_id and recorded_by_admin_id of the input and created_at the
\* time of the call; from then on no step, updatePayment with any input
\* included, removes it or changes its id, user_id, recorded_by_admin_id or
\* created_at.
C12_PaymentOriginFixed ==
    [][/\ \A id \in DOMAIN paymentsTable :
             /\ id \in DOMAIN paymentsTable'
             /\ paymentsTable'[id].user_id = paymentsTable[id].user_id
             /\ paymentsTable'[id].recorded_by_admin_id = paymentsTable[id].recorded_by_admin_id
             /\ paymentsTable'[id].created_at = paymentsTable[id].created_at
       /\ \A id \in (DOMAIN paymentsTable') \ (DOMAIN paymentsTable) :
             /\ last'.op = "createPayment"
             /\ last'.id = id
             /\ paymentsTable'[id].user_id = last'.input.user_id
             /\ paymentsTable'[id].recorded_by_admin_id = last'.input.recorded_by_admin_id
             /\ paymentsTable'[id].created_at = now]_vars

\* A payment recorded earlier has just been updated in all five fields.
C12_Witness ==
    /\ last.op = "updatePayment"
    /\ last.result = "ok"
    /\ UpdatePaymentFields \subseteq DOMAIN last.input
    /\ paymentsTable[last.id].created_at < paymentsTable[last.id].updated_at
    /\ paymentsTable[last.id].amount # last.existing.amount

\* C13: an updatePayment whose id names no stored payment throws "Payment
\* not found"; it returns no row, and the payments table and its serial are
\* as they were before the call.
C13_UpdateUnknownPaymentFails ==
    [][(/\ last.op = "none"
        /\ last'.op = "updatePayment"
        /\ last'.input.id \notin DOMAIN paymentsTable)
       => /\ last'.result = "Payment not found"
          /\ last'.id = NullId
          /\ paymentsTable' = paymentsTable
          /\ paymentsSeq' = paymentsSeq]_vars

\* An update of an unknown id has failed while another payment is stored.
C13_Witness ==
    /\ last.op = "updatePayment"
    /\ last.result = "Payment not found"
    /\ last.input.id \notin DOMAIN paymentsTable
    /\ DOMAIN last.input # {"id"}
    /\ paymentsTable # EmptyTable

\* C14: after a createPayment, or an updatePayment whose input carries an
\* amount, has succeeded with the positive amount a, the payment is read back
\* with an amount within half a cent of a: in the record the call returns, in
\* the rows of getAllPayments and in the rows of getUserPayments for its payer.
C14_AmountRoundTrip ==
    (/\ last.op \in {"createPayment", "updatePayment"}
     /\ last.result = "ok"
     /\ "amount" \in DOMAIN last.input)
    => /\ last.input.amount > 0
       /\ paymentWithAmount(paymentsTable, last.id).amount - last.input.amount <= 5
       /\ last.input.amount - paymentWithAmount(paymentsTable, last.id).amount <= 5
       /\ \E r \in getAllPaymentsResults : r.id = last.id
       /\ \A r \in getAllPaymentsResults :
             r.id = last.id => /\ r.amount - last.input.amount <= 5
                               /\ last.input.amount - r.amount <= 5
       /\ \E r \in getUserPaymentsResults([user_id |-> paymentsTable[last.id].user_id]) :
             r.id = last.id
       /\ \A r \in getUserPaymentsResults([user_id |-> paymentsTable[last.id].user_id]) :
             r.id = last.id => /\ r.amount - last.input.amount <= 5
                               /\ last.input.amount - r.amount <= 5

\* An amount of three decimals, 123.456, has been written and is stored as 123.46.
C14_Witness ==
    /\ last.op = "updatePayment"
    /\ last.result = "ok"
    /\ "amount" \in DOMAIN last.input
    /\ last.input.amount = 123456
    /\ paymentsTable[last.id].amount = 12346
    /\ \E r \in getAllPaymentsResults : r.amount = 123460

\* C15: loginUser never throws, and it returns a user exactly when a stored
\* user has the very username of the input, letter case included, and that
\* user's hash verifies the password of the input; the user it returns is
\* that one.  It returns null otherwise: for an unknown username, a wrong
\* password, an empty username, an empty password, and a username that
\* differs from a stored one in letter case only; the null of an unknown
\* username and the null of a wrong password are the same result.
C15_LoginIffCredentialsMatch ==
    last.op = "loginUser" =>
        /\ last.result = "ok"
        /\ last.id # NullId <=>
              \E i \in DOMAIN usersTable :
                  /\ usersTable[i].username = last.input.username
                  /\ usersTable[i].password_hash = PasswordHash(last.input.password)
        /\ last.id # NullId =>
              /\ last.id \in DOMAIN usersTable
              /\ usersTable[last.id].username = last.input.username
              /\ usersTable[last.id].password_hash = PasswordHash(last.input.password)
        /\ (last.input.username = "" \/ last.input.password = "") => last.id = NullId
        /\ last.id = NullId => last = Returned("loginUser", last.input, NullId, Null)

\* alice is stored and "Alice" is not: a login as "Alice" with alice's
\* password has returned null.
C15_Witness ==
    /\ last.op = "loginUser"
    /\ last.input.username = "Alice"
    /\ last.id = NullId
    /\ \E i \in DOMAIN usersTable :
          /\ usersTable[i].username = "alice"
          /\ PasswordVerify(last.input.password, usersTable[i].password_hash)

\* C16: when createUser succeeds with username u and password p, the
\* password_hash it stores is not p, loginUser(u, p) returns the new user and
\* loginUser(u, q) returns null for every other password q; and no later
\* step, updateUser on that user included, changes what loginUser returns
\* for the username of a stored user, whatever the password.
C16_CreateThenLogin ==
    [][/\ last.op = "none" =>
             ((last.op = "createUser" /\ last.result = "ok") =>
                 /\ usersTable[last.id].password_hash # last.input.password
                 /\ \A q \in LoginPasswords \cup RegisterPasswords :
                       loginUserReturn([username |-> last.input.username, password |-> q]) =
                           IF q = last.input.password THEN {last.id} ELSE {NullId})'
       /\ \A i \in DOMAIN usersTable :
             \A q \in LoginPasswords \cup RegisterPasswords :
                 loginUserReturn([username |-> usersTable[i].username, password |-> q])' =
                     loginUserReturn([username |-> usersTable[i].username, password |-> q])]_vars

\* A user registered with secret2 beside a user registered with secret1 has
\* had the nik changed, and still logs in with secret2 only.
C16_Witness ==
    /\ last.op = "updateUser"
    /\ last.result = "ok"
    /\ usersTable[last.id].nik # last.existing.nik
    /\ loginUserReturn([username |-> usersTable[last.id].username, password |-> "secret2"])
          = {last.id}
    /\ \E i \in DOMAIN usersTable :
          /\ i # last.id
          /\ usersTable[i].password_hash = PasswordHash("secret1")

\* C17: a createUser whose username is that of a stored user, or whose nik is
\* that of a stored user, throws the unique-constraint error, returns no row
\* and leaves the users table as it was: no user added, none changed.
C17_DuplicateUserRejected ==
    [][(/\ last.op = "none"
        /\ last'.op = "createUser"
        /\ \E i \in DOMAIN usersTable :
              \/ usersTable[i].username = last'.input.username
              \/ usersTable[i].nik = last'.input.nik)
       => /\ last'.result = "duplicate key value violates unique constraint"
          /\ last'.id = NullId
          /\ usersTable' = usersTable]_vars

\* A registration under a new username with the nik of a stored user has failed.
C17_Witness ==
    /\ last.op = "createUser"
    /\ last.result = "duplicate key value violates unique constraint"
    /\ \E i \in DOMAIN usersTable : usersTable[i].nik = last.input.nik
    /\ \A i \in DOMAIN usersTable : usersTable[i].username # last.input.username

C19_UpdateUserAlwaysOverwrites ==
    last.op = "updateUser" =>
        IF last.input.id \notin DOMAIN usersTable
        THEN last.result = "User not found"
        ELSE \A f \in (DOMAIN last.input) \cap UpdateUserFields :
                 usersTable[last.input.id][f] = last.input[f]

\* C19, amended: an updateUser whose id names no user throws "User not found"
\* and changes nothing; one that names a stored user and carries the nik of
\* another stored user throws the unique-constraint error and changes
\* nothing; any other one succeeds, writes exactly the profile fields
\* (full_name, nik, no_kk, home_address, rt) its input carries, sets
\* updated_at to the time of the call, and leaves every other column of that
\* user and every other user as they were.
C19_UpdateUserFieldWise ==
    [][(last.op = "none" /\ last'.op = "updateUser") =>
          IF last'.input.id \notin DOMAIN usersTable
          THEN /\ last'.result = "User not found"
               /\ usersTable' = usersTable
          ELSE IF /\ "nik" \in DOMAIN last'.input
                  /\ \E j \in (DOMAIN usersTable) \ {last'.input.id} :
                        usersTable[j].nik = last'.input.nik
          THEN /\ last'.result = "duplicate key value violates unique constraint"
               /\ usersTable' = usersTable
          ELSE /\ last'.result = "ok"
               /\ last'.id = last'.input.id
               /\ DOMAIN usersTable' = DOMAIN usersTable
               /\ \A c \in DOMAIN usersTable[last'.input.id] :
                     usersTable'[last'.input.id][c] =
                         IF c = "updated_at" THEN now
                         ELSE IF c \in (DOMAIN last'.input) \cap UpdateUserFields
                         THEN last'.input[c]
                         ELSE usersTable[last'.input.id][c]
               /\ \A j \in (DOMAIN usersTable) \ {last'.input.id} :
                     usersTable'[j] = usersTable[j]]_vars

\* A user registered earlier has got a new nik and a new rt, and nothing
\* else, while another user is stored.
C19_Witness ==
    /\ last.op = "updateUser"
    /\ last.result = "ok"
    /\ DOMAIN last.input = {"id", "nik", "rt"}
    /\ usersTable[last.id].nik # last.existing.nik
    /\ usersTable[last.id].rt # last.existing.rt
    /\ usersTable[last.id].full_name = last.existing.full_name
    /\ usersTable[last.id].updated_at > last.existing.updated_at
    /\ Cardinality(DOMAIN usersTable) = 2

C21_GetUserPaymentsFilters ==
    last.op = "getUserPayments" =>
        /\ last.result = "ok"
        /\ \A id \in DOMAIN paymentsTable :
              (\E r \in last.rows : r.id = id) <=>
                  /\ paymentsTable[id].user_id = last.input.user_id
                  /\ "year" \in DOMAIN last.input => paymentsTable[id].year = last.input.year
                  /\ "month" \in DOMAIN last.input => paymentsTable[id].month = last.input.month
        /\ \A r \in last.rows :
              /\ r.id \in DOMAIN paymentsTable
              /\ r.user_id = last.input.user_id
              /\ r = paymentWithAmount(paymentsTable, r.id)
        /\ Cardinality(last.rows) <= Cardinality(DOMAIN paymentsTable)
        /\ last.input.user_id \notin DOMAIN usersTable => last.rows = {}

\* A payment of the user is left out by the month alone: the input has a
\* month and no year, and the payment is of another month.
C21_Witness ==
    /\ last.op = "getUserPayments"
    /\ DOMAIN last.input = {"user_id", "month"}
    /\ last.rows = {}
    /\ \E id \in DOMAIN paymentsTable :
          /\ paymentsTable[id].user_id = last.input.user_id
          /\ paymentsTable[id].month # last.input.month

\* C22: the rows of getUserDisputes are exactly the stored disputes of
\* input.user_id, of status input.status when a status is given, each as
\* stored; and once resolveDispute has succeeded on a dispute, the dispute is
\* not among its owner's disputes of status pending and is among its owner's
\* disputes of the status the call gave it.
C22_GetUserDisputesFilters ==
    /\ last.op = "getUserDisputes" =>
          /\ last.result = "ok"
          /\ \A id \in DOMAIN disputesTable :
                (\E r \in last.rows : r.id = id) <=>
                    /\ disputesTable[id].user_id = last.input.user_id
                    /\ "status" \in DOMAIN last.input =>
                          disputesTable[id].status = last.input.status
          /\ \A r \in last.rows :
                /\ r.id \in DOMAIN disputesTable
                /\ r = disputeWithId(disputesTable, r.id)
    /\ (last.op = "resolveDispute" /\ last.result = "ok") =>
          /\ \A r \in getUserDisputesResults([user_id |-> disputesTable[last.id].user_id,
                                              status |-> "pending"]) : r.id # last.id
          /\ \E r \in getUserDisputesResults([user_id |-> disputesTable[last.id].user_id,
                                              status |-> last.input.status]) : r.id = last.id

\* C23: the rows of getAllPayments hold exactly one entry for every stored
\* payment and no other entry, and the rows of getAllDisputes, after the join
\* with users and payments, hold exactly one entry for every stored dispute
\* and no other entry; every entry has the columns of its stored row, the
\* amount of a payment as a number.
C23_GetAllUnfiltered ==
    /\ last.op = "getAllPayments" =>
          /\ last.result = "ok"
          /\ \A id \in DOMAIN paymentsTable :
                Cardinality({r \in last.rows : r.id = id}) = 1
          /\ \A r \in last.rows :
                /\ r.id \in DOMAIN paymentsTable
                /\ r.amount = parseFloat(paymentsTable[r.id].amount)
                /\ \A c \in (DOMAIN paymentsTable[r.id]) \ {"amount"} :
                      r[c] = paymentsTable[r.id][c]
    /\ last.op = "getAllDisputes" =>
          /\ last.result = "ok"
          /\ \A id \in DOMAIN disputesTable :
                Cardinality({t \in DOMAIN last.rows : last.rows[t].id = id}) = 1
          /\ \A t \in DOMAIN last.rows :
                /\ last.rows[t].id \in DOMAIN disputesTable
                /\ \A c \in DOMAIN disputesTable[last.rows[t].id] :
                      last.rows[t][c] = disputesTable[last.rows[t].id][c]

\* getAllDisputes has returned two disputes, one pending and one resolved.
C23_Witness ==
    /\ last.op = "getAllDisputes"
    /\ Cardinality(DOMAIN last.rows) = 2
    /\ \E t \in DOMAIN last.rows : last.rows[t].status = "pending"
    /\ \E t \in DOMAIN last.rows : last.rows[t].resolved_by_admin_id # NullId

\* C24: every call of createUser, updateUser, createPayment, updatePayment,
\* createDispute or resolveDispute either returns, and then the row it
\* returns is stored with every column of its table, or throws, and then the
\* users, payments and disputes are exactly as before the call: a resolve
\* attempted by a citizen leaves the dispute's status, admin_response,
\* resolved_by_admin_id and updated_at as they were.
C24_NoPartialSuccess ==
    [][(/\ last.op = "none"
        /\ last'.op \in {"createUser", "updateUser", "createPayment",
                         "updatePayment", "createDispute", "resolveDispute"})
       => IF last'.result = "ok"
          THEN /\ last'.op \in {"createUser", "updateUser"} =>
                    /\ last'.id \in DOMAIN usersTable'
                    /\ DOMAIN usersTable'[last'.id] =
                          {"username", "password_hash", "role", "full_name", "nik",
                           "no_kk", "home_address", "rt", "created_at", "updated_at"}
               /\ last'.op \in {"createPayment", "updatePayment"} =>
                    /\ last'.id \in DOMAIN paymentsTable'
                    /\ DOMAIN paymentsTable'[last'.id] =
                          {"user_id", "amount", "payment_date", "month", "year",
                           "receipt_photo_url", "recorded_by_admin_id",
                           "created_at", "updated_at"}
               /\ last'.op \in {"createDispute", "resolveDispute"} =>
                    /\ last'.id \in DOMAIN disputesTable'
                    /\ DOMAIN disputesTable'[last'.id] =
                          {"payment_id", "user_id", "dispute_reason", "evidence_photo_url",
                           "status", "admin_response", "resolved_by_admin_id",
                           "created_at", "updated_at"}
          ELSE /\ last'.id = NullId
               /\ usersTable' = usersTable
               /\ paymentsTable' = paymentsTable
               /\ disputesTable' = disputesTable]_vars

\* A citizen has tried to resolve a dispute that an admin resolved earlier.
C24_Witness ==
    /\ last.op = "resolveDispute"
    /\ last.result = "User is not authorized to resolve disputes"
    /\ last.input.id \in DOMAIN disputesTable
    /\ disputesTable[last.input.id].status # last.input.status
    /\ disputesTable[last.input.id].resolved_by_admin_id # NullId
    /\ disputesTable[last.input.id].updated_at < now

\* C26: a createDispute by the owner of a payment that already has disputes,
\* whatever their status and reason, succeeds; the dispute it stores has an
\* id no stored dispute had, and the disputes stored before are unchanged.
C26_ManyDisputesPerPayment ==
    [][(/\ last.op = "none"
        /\ last'.op = "createDispute"
        /\ last'.input.payment_id \in DOMAIN paymentsTable
        /\ paymentsTable[last'.input.payment_id].user_id = last'.input.user_id
        /\ \E d \in DOMAIN disputesTable :
              disputesTable[d].payment_id = last'.input.payment_id)
       => /\ last'.result = "ok"
          /\ last'.id \notin DOMAIN disputesTable
          /\ DOMAIN disputesTable' = (DOMAIN disputesTable) \cup {last'.id}
          /\ disputesTable'[last'.id].payment_id = last'.input.payment_id
          /\ \A d \in DOMAIN disputesTable : disputesTable'[d] = disputesTable[d]]_vars

\* A second dispute with the reason of the first is stored for a payment
\* whose first dispute is still pending.
C26_Witness ==
    /\ last.op = "createDispute"
    /\ last.result = "ok"
    /\ \E d \in DOMAIN disputesTable :
          /\ d # last.id
          /\ disputesTable[d].payment_id = disputesTable[last.id].payment_id
          /\ disputesTable[d].dispute_reason = disputesTable[last.id].dispute_reason
          /\ disputesTable[d].status = "pending"

\* C27: a successful updatePayment, updateUser or resolveDispute leaves the
\* row it names with updated_at the time of the call, also when its input
\* changes no other column; no step lowers the updated_at of a stored user,
\* payment or dispute, and every stored row has updated_at >= created_at.
C27_UpdatedAtRefreshed ==
    [][/\ (last.op = "none" /\ last'.result = "ok") =>
             /\ last'.op = "updatePayment" => paymentsTable'[last'.id].updated_at = now
             /\ last'.op = "updateUser" => usersTable'[last'.id].updated_at = now
             /\ last'.op = "resolveDispute" => disputesTable'[last'.id].updated_at = now
       /\ \A i \in DOMAIN usersTable : usersTable'[i].updated_at >= usersTable[i].updated_at
       /\ \A i \in DOMAIN paymentsTable :
             paymentsTable'[i].updated_at >= paymentsTable[i].updated_at
       /\ \A i \in DOMAIN disputesTable :
             disputesTable'[i].updated_at >= disputesTable[i].updated_at
       /\ \A i \in DOMAIN usersTable' : usersTable'[i].updated_at >= usersTable'[i].created_at
       /\ \A i \in DOMAIN paymentsTable' :
             paymentsTable'[i].updated_at >= paymentsTable'[i].created_at
       /\ \A i \in DOMAIN disputesTable' :
             disputesTable'[i].updated_at >= disputesTable'[i].created_at]_vars

\* An updatePayment of the id alone has moved updated_at and nothing else.
C27_Witness ==
    /\ last.op = "updatePayment"
    /\ last.result = "ok"
    /\ DOMAIN last.input = {"id"}
    /\ paymentsTable[last.id].updated_at > last.existing.updated_at
    /\ paymentsTable[last.id].updated_at > paymentsTable[last.id].created_at
    /\ [paymentsTable[last.id] EXCEPT !.updated_at = last.existing.updated_at] = last.existing

\* C28: every stored payment has an amount above zero in the hundredths the
\* column holds.
C28_StoredAmountPositive ==
    \A id \in DOMAIN paymentsTable : paymentsTable[id].amount > 0

\* C29: a stored dispute is pending exactly when its resolved_by_admin_id is
\* null, and a pending dispute has a null admin_response.
C29_PendingIffUnresolved ==
    \A id \in DOMAIN disputesTable :
        /\ disputesTable[id].status = "pending" <=>
              disputesTable[id].resolved_by_admin_id = NullId
        /\ disputesTable[id].status = "pending" =>
              disputesTable[id].admin_response = Null


(* ======================= C25 ======================= *)

ResolutionOf(row) == <<row.status, row.admin_response, row.resolved_by_admin_id>>

\* C25: two resolveDispute calls on the same dispute whose statements
\* interleave in any order: a call that has passed its checks succeeds with
\* its next statement, which writes the call's whole resolution; and once both
\* calls have succeeded, the stored status, admin_response and
\* resolved_by_admin_id are all three from the input of one call, or all
\* three from the input of the other.
C25_ConcurrentResolveLastWriteWins ==
    /\ [](\A p \in Callers, q \in Callers :
            (/\ p # q
             /\ calls[p].op = "resolveDispute" /\ calls[q].op = "resolveDispute"
             /\ calls[p].pc = "done" /\ calls[q].pc = "done"
             /\ calls[p].result = "ok" /\ calls[q].result = "ok"
             /\ calls[p].input.id = calls[q].input.id)
            => ResolutionOf(disputesTable[calls[p].input.id])
                  \in {ResolutionOf(calls[p].input), ResolutionOf(calls[q].input)})
    /\ [][\A p \in Callers :
            (/\ calls[p].op = "resolveDispute"
             /\ calls[p].pc = "update"
             /\ calls'[p] # calls[p])
            => /\ calls'[p].pc = "done"
               /\ calls'[p].result = "ok"
               /\ ResolutionOf(disputesTable'[calls[p].input.id])
                     = ResolutionOf(calls[p].input)]_vars

\* Both calls read the dispute while it was pending and unresolved, so both
\* passed their checks before either wrote; their inputs differ in all three
\* fields; both have succeeded and the stored resolution is B's.
C25_Witness ==
    /\ \A p \in Callers :
          /\ calls[p].op = "resolveDispute"
          /\ calls[p].pc = "done"
          /\ calls[p].result = "ok"
          /\ calls[p].input.id = 1
          /\ calls[p].existing.status = "pending"
          /\ calls[p].existing.resolved_by_admin_id = NullId
    /\ ResolutionOf(calls["A"].input) = <<"approved", "checked", 1>>
    /\ ResolutionOf(calls["B"].input) = <<"rejected", Null, 2>>
    /\ ResolutionOf(disputesTable[1]) = ResolutionOf(calls["B"].input)

(* ======================= C30 ======================= *)

NamedFields(input) == (DOMAIN input) \cap UpdatePaymentFields

\* C30: two updatePayment calls on the same payment whose statements
\* interleave in any order, the inputs naming disjoint sets of fields: once
\* both calls have succeeded, the stored payment holds for every field a call
\* named the value of that call (the amount at the scale of the column); and
\* the UPDATE of a call leaves every column it did not name, other than
\* updated_at, as it is stored at that moment.
C30_NoLostUpdateOnDisjointFields ==
    /\ [](\A p \in Callers, q \in Callers :
            (/\ p # q
             /\ calls[p].op = "updatePayment" /\ calls[q].op = "updatePayment"
             /\ calls[p].pc = "done" /\ calls[q].pc = "done"
             /\ calls[p].result = "ok" /\ calls[q].result = "ok"
             /\ calls[p].input.id = calls[q].input.id
             /\ NamedFields(calls[p].input) \cap NamedFields(calls[q].input) = {})
            => \A f \in NamedFields(calls[p].input) :
                  paymentsTable[calls[p].input.id][f]
                     = IF f = "amount" THEN NumericScale2(calls[p].input.amount)
                       ELSE calls[p].input[f])
    /\ [][\A p \in Callers :
            (/\ calls[p].op = "updatePayment"
             /\ calls[p].pc = "update"
             /\ calls'[p].pc = "done")
            => \A c \in DOMAIN paymentsTable[calls[p].input.id] :
                  c \notin NamedFields(calls[p].input) \cup {"updated_at"}
                  => paymentsTable'[calls[p].input.id][c]
                        = paymentsTable[calls[p].input.id][c]]_vars

\* Both calls read the payment as it was recorded, so both passed their
\* lookups before either wrote; A named the amount only and B the month only;
\* both have succeeded and the payment holds A's amount and B's month.
C30_Witness ==
    /\ \A p \in Callers :
          /\ calls[p].op = "updatePayment"
          /\ calls[p].pc = "done"
          /\ calls[p].result = "ok"
          /\ calls[p].input.id = 1
          /\ calls[p].existing.amount = NumericScale2(25000)
          /\ calls[p].existing.month = 6
    /\ NamedFields(calls["A"].input) = {"amount"}
    /\ NamedFields(calls["B"].input) = {"month"}
    /\ paymentsTable[1].amount = NumericScale2(123456)
    /\ paymentsTable[1].month = 7
    /\ paymentsTable[1].amount # NumericScale2(25000)

====
